---- MODULE Spec2Model ----
(***************************************************************************)
(* Model of tortoise-orm's query-modifier algebra and filter nodes         *)
(* (tortoise/query_utils.py), schema generator                             *)
(* (tortoise/backends/base/schema_generator.py) and asyncpg executor.      *)
(*                                                                         *)
(* Each component has its own specification over its own variables; the    *)
(* variables of the other components stay at their idle values.            *)
(***************************************************************************)
EXTENDS Integers, Sequences, FiniteSets, TLC

VARIABLES
    qa, qb,      \* the two QueryModifier operands
    qop,         \* the operation applied last: "none", "and", "or", "invert"
    qr,          \* the QueryModifier that operation returned
    qprev,       \* how operand qa was obtained: [op, a, b] of the step before
    qdepth,      \* number of results fed back as operands
    \* --- get_create_schema_sql ---
    models_to_create,            \* the models handed to the generator
    tables_to_create,            \* plans not yet placed, in list order
    created_tables,              \* names of the tables placed so far
    ordered_tables_for_create,   \* table statements in placement order
    m2m_tables_to_create,        \* deferred many-to-many statements
    sgpc,                        \* "loop", "returned" or "raised"
    sgerror,                     \* the exception raised, "" if none
    sgresult,                    \* the schema text returned (statements)
    \* --- generated identifier names ---
    nmcall,      \* the name generation called last and its arguments
    nmname,      \* the name it returned
    nmprev,      \* the name the previous call with these arguments returned
    \* --- filter nodes (Q) ---
    fq,          \* the filter node at hand, NoNode before the first one
    fprev,       \* the node at hand before the last operation
    fcall,       \* the constructor call made last: <<args, join_type, kwargs>>
    fnew,        \* the node the last operation produced, NoNode when it raised
    fnerr,       \* the error the last operation raised, NoErr if none
    fres,        \* what resolve() returned or raised, and against which model
    fcf,         \* the custom-filter registry handed to resolve()
    fop,         \* the operation applied last
    fdepth,      \* operations that went into the node at hand
    \* --- prefetch attachment (Prefetch.resolve_for_queryset) ---
    pfqueries,   \* queryset._prefetch_queries: segment -> load-spec
    pfmap,       \* queryset._prefetch_map: segment -> set of Prefetch objects
    pfresets,    \* load-spec -> times its query was reset to the base query
    pfnext,      \* number of Prefetch objects created by attach calls
    pflog,       \* the attach calls so far: <<relation, load-spec, succeeded>>
    pferr,       \* the error the last attach call raised, NoPfError if none
    pfbefore,    \* <<_prefetch_queries, _prefetch_map>> before the last call
    \* --- AsyncpgExecutor.execute_insert ---
    expc,        \* call -> "start", "executing", "releasing", "done", "failed"
    connection,  \* self.connection of the executor: a connection, 0 for None
    exheld,      \* call -> the connection it acquired, 0 before it has one
    exreleases,  \* the release_single_connection calls: <<connection, call>>
    exerr        \* call -> the exception that ended it, "" if none

qmVars == <<qa, qb, qop, qr, qprev, qdepth>>

sgVars == <<models_to_create, tables_to_create, created_tables,
            ordered_tables_for_create, m2m_tables_to_create, sgpc, sgerror, sgresult>>

nmVars == <<nmcall, nmname, nmprev>>

fnVars == <<fq, fprev, fcall, fnew, fnerr, fres, fcf, fop, fdepth>>

pfVars == <<pfqueries, pfmap, pfresets, pfnext, pflog, pferr, pfbefore>>

exVars == <<expc, connection, exheld, exreleases, exerr>>

vars == <<qmVars, sgVars, nmVars, fnVars, pfVars, exVars>>

\* the variables each component leaves alone
notQM == <<sgVars, nmVars, fnVars, pfVars, exVars>>
notSG == <<qmVars, nmVars, fnVars, pfVars, exVars>>
notNM == <<qmVars, sgVars, fnVars, pfVars, exVars>>
notFN == <<qmVars, sgVars, nmVars, pfVars, exVars>>
notPF == <<qmVars, sgVars, nmVars, fnVars, exVars>>
notEX == <<qmVars, sgVars, nmVars, fnVars, pfVars>>

(***************************************************************************)
(* Bounds                                                                  *)
(***************************************************************************)
MaxJoins == 1        \* joins of an initial operand
MaxDepth == 2        \* results fed back into a further operation
MaxTables == 3       \* models of a model set
MaxFks == 2          \* foreign-key / one-to-one fields of one model
MaxNameLen == 12     \* characters of a table or field name
MaxAttach == 3       \* attach calls on one queryset
MaxCalls == 3        \* execute_insert calls on one executor

(***************************************************************************)
(* pypika criteria as expression trees.  A criterion is a record           *)
(* [op, id, args]; op "empty" is tortoise's EmptyCriterion; the id of a    *)
(* leaf comparison is a tuple of strings.                                  *)
(***************************************************************************)
EmptyCriterion == [op |-> "empty", id |-> <<>>, args |-> <<>>]

Leaf(name) == [op |-> "leaf", id |-> name, args |-> <<>>]

\* EmptyCriterion.__bool__ is False; every other criterion is a plain
\* object and therefore true in boolean context.
Truthy(c) == c.op # "empty"

\* left & right : EmptyCriterion.__and__ for an empty left operand,
\* pypika's Criterion.__and__ (a ComplexCriterion) otherwise.
CritAnd(left, right) ==
    IF left.op = "empty"
    THEN (IF Truthy(right) THEN right ELSE left)
    ELSE [op |-> "and", id |-> <<>>, args |-> <<left, right>>]

\* left | right : EmptyCriterion.__or__ / pypika's Criterion.__or__.
CritOr(left, right) ==
    IF left.op = "empty"
    THEN (IF Truthy(right) THEN right ELSE left)
    ELSE [op |-> "or", id |-> <<>>, args |-> <<left, right>>]

\* criterion.negate() : pypika's Term.negate wraps the term in Not(...).
Negate(c) == [op |-> "not", id |-> <<>>, args |-> <<c>>]

\* _and without its `left and not right` shortcut
_and_unguarded(left, right) == CritAnd(left, right)

_and(left, right) ==
    IF Truthy(left) /\ ~Truthy(right) THEN left ELSE CritAnd(left, right)

_or(left, right) ==
    IF Truthy(left) /\ ~Truthy(right) THEN left ELSE CritOr(left, right)

\* Python's `x or y` on two criteria.
PyOr(x, y) == IF Truthy(x) THEN x ELSE y

(***************************************************************************)
(* QueryModifier                                                           *)
(***************************************************************************)
QueryModifier(where_criterion, joins, having_criterion) ==
    [where_criterion  |-> PyOr(where_criterion, EmptyCriterion),
     joins            |-> IF joins # <<>> THEN joins ELSE <<>>,
     having_criterion |-> PyOr(having_criterion, EmptyCriterion)]

QM_and(self, other) ==
    QueryModifier(_and(self.where_criterion, other.where_criterion),
                  self.joins \o other.joins,
                  _and(self.having_criterion, other.having_criterion))

\* __or__ testing only its own having-predicate before collapsing
QM_or_selfhaving(self, other) ==
    IF Truthy(self.having_criterion)
    THEN QueryModifier(EmptyCriterion,
                       self.joins \o other.joins,
                       _or(_and(self.where_criterion, self.having_criterion),
                           _and(other.where_criterion, other.having_criterion)))
    ELSE QueryModifier(PyOr(self.where_criterion, other.where_criterion),
                       self.joins \o other.joins,
                       other.having_criterion)

QM_or(self, other) ==
    IF Truthy(self.having_criterion) \/ Truthy(other.having_criterion)
    THEN QueryModifier(EmptyCriterion,
                       self.joins \o other.joins,
                       _or(_and(self.where_criterion, self.having_criterion),
                           _and(other.where_criterion, other.having_criterion)))
    ELSE IF Truthy(self.where_criterion) /\ Truthy(other.where_criterion)
    THEN QueryModifier(CritOr(self.where_criterion, other.where_criterion),
                       self.joins \o other.joins,
                       EmptyCriterion)
    ELSE QueryModifier(PyOr(self.where_criterion, other.where_criterion),
                       self.joins \o other.joins,
                       EmptyCriterion)

\* __invert__ negating only the having-predicate in the collapse branch
QM_invert_havingonly(self) ==
    IF ~Truthy(self.where_criterion) /\ ~Truthy(self.having_criterion)
    THEN QueryModifier(EmptyCriterion, self.joins, EmptyCriterion)
    ELSE IF Truthy(self.having_criterion)
    THEN QueryModifier(self.where_criterion,
                       self.joins,
                       Negate(self.having_criterion))
    ELSE QueryModifier(Negate(self.where_criterion), self.joins, EmptyCriterion)

\* __invert__ of an empty modifier starting from a fresh QueryModifier()
QM_invert_dropjoins(self) ==
    IF ~Truthy(self.where_criterion) /\ ~Truthy(self.having_criterion)
    THEN QueryModifier(EmptyCriterion, <<>>, EmptyCriterion)
    ELSE IF Truthy(self.having_criterion)
    THEN QueryModifier(EmptyCriterion,
                       self.joins,
                       Negate(_and(self.where_criterion, self.having_criterion)))
    ELSE QueryModifier(Negate(self.where_criterion), self.joins, EmptyCriterion)

\* __invert__ flipping a "negated" marker off again instead of wrapping
QM_invert_unwrap(self) ==
    IF ~Truthy(self.where_criterion) /\ ~Truthy(self.having_criterion)
    THEN QueryModifier(EmptyCriterion, self.joins, EmptyCriterion)
    ELSE IF Truthy(self.having_criterion)
    THEN QueryModifier(EmptyCriterion,
                       self.joins,
                       Negate(_and(self.where_criterion, self.having_criterion)))
    ELSE IF self.where_criterion.op = "not"
    THEN QueryModifier(self.where_criterion.args[1], self.joins, EmptyCriterion)
    ELSE QueryModifier(Negate(self.where_criterion), self.joins, EmptyCriterion)

QM_invert(self) ==
    IF ~Truthy(self.where_criterion) /\ ~Truthy(self.having_criterion)
    THEN QueryModifier(EmptyCriterion, self.joins, EmptyCriterion)
    ELSE IF Truthy(self.having_criterion)
    THEN QueryModifier(EmptyCriterion,
                       self.joins,
                       Negate(_and(self.where_criterion, self.having_criterion)))
    ELSE QueryModifier(Negate(self.where_criterion), self.joins, EmptyCriterion)

\* QueryModifier() : no predicate, no joins, no having-predicate.
EmptyModifier == QueryModifier(EmptyCriterion, <<>>, EmptyCriterion)

(***************************************************************************)
(* Truth value of a criterion under an assignment of its leaf comparisons  *)
(* (env is the set of leaves that hold for the row / group at hand).       *)
(***************************************************************************)
RECURSIVE Eval(_, _)
Eval(c, env) ==
    CASE c.op = "leaf" -> c.id \in env
      [] c.op = "and"  -> Eval(c.args[1], env) /\ Eval(c.args[2], env)
      [] c.op = "or"   -> Eval(c.args[1], env) \/ Eval(c.args[2], env)
      [] c.op = "not"  -> ~Eval(c.args[1], env)
      [] OTHER         -> TRUE

(***************************************************************************)
(* Specification of the algebra: operands are drawn from the modifiers a   *)
(* resolution can build; an operation is applied; its result may be fed    *)
(* back as the left or right operand of a further operation.               *)
(***************************************************************************)
JoinNames == {"j1", "j2"}

JoinSeqs == UNION {[1..n -> JoinNames] : n \in 0..MaxJoins}

LeafNames == {<<"pa">>, <<"ha">>, <<"pb">>, <<"hb">>}

Operands(p, h) ==
    {QueryModifier(w, j, hv) :
        w \in {EmptyCriterion, Leaf(p)}, j \in JoinSeqs,
        hv \in {EmptyCriterion, Leaf(h)}}

NoStep == [op |-> "none", a |-> EmptyModifier, b |-> EmptyModifier]

IdleQM ==
    /\ qa = EmptyModifier
    /\ qb = EmptyModifier
    /\ qop = "idle"
    /\ qr = EmptyModifier
    /\ qprev = NoStep
    /\ qdepth = 0

InitQM ==
    /\ qa \in Operands(<<"pa">>, <<"ha">>)
    /\ qb \in Operands(<<"pb">>, <<"hb">>)
    /\ qop = "none"
    /\ qr = EmptyModifier
    /\ qprev = NoStep
    /\ qdepth = 0

ApplyAnd ==
    /\ qop = "none"
    /\ qr' = QM_and(qa, qb)
    /\ qop' = "and"
    /\ UNCHANGED <<qa, qb, qprev, qdepth>>
    /\ UNCHANGED notQM

ApplyOr ==
    /\ qop = "none"
    /\ qr' = QM_or(qa, qb)
    /\ qop' = "or"
    /\ UNCHANGED <<qa, qb, qprev, qdepth>>
    /\ UNCHANGED notQM

ApplyInvert ==
    /\ qop = "none"
    /\ qr' = QM_invert(qa)
    /\ qop' = "invert"
    /\ UNCHANGED <<qa, qb, qprev, qdepth>>
    /\ UNCHANGED notQM

\* the result becomes the left operand of the next operation
FeedLeft ==
    /\ qop # "none"
    /\ qdepth < MaxDepth
    /\ qprev' = [op |-> qop, a |-> qa, b |-> qb]
    /\ qa' = qr
    /\ qop' = "none"
    /\ qdepth' = qdepth + 1
    /\ UNCHANGED <<qb, qr>>
    /\ UNCHANGED notQM

\* the result becomes the right operand of the next operation
FeedRight ==
    /\ qop # "none"
    /\ qdepth < MaxDepth
    /\ qprev' = NoStep
    /\ qb' = qr
    /\ qop' = "none"
    /\ qdepth' = qdepth + 1
    /\ UNCHANGED <<qa, qr>>
    /\ UNCHANGED notQM

NextQM ==
    \/ ApplyAnd
    \/ ApplyOr
    \/ ApplyInvert
    \/ FeedLeft
    \/ FeedRight

(***************************************************************************)
(* Claims about the QueryModifier algebra (checked under SpecQM)           *)
(***************************************************************************)

\* The claim's "empty-absorbing rule", stated on its own: an empty operand
\* is absorbed, two non-empty operands give a true AND / OR.
AbsorbAnd(x, y) ==
    IF x = EmptyCriterion THEN y
    ELSE IF y = EmptyCriterion THEN x
    ELSE [op |-> "and", id |-> <<>>, args |-> <<x, y>>]

AbsorbOr(x, y) ==
    IF x = EmptyCriterion THEN y
    ELSE IF y = EmptyCriterion THEN x
    ELSE [op |-> "or", id |-> <<>>, args |-> <<x, y>>]

Envs == SUBSET LeafNames

Equivalent(c, d) == \A env \in Envs : Eval(c, env) = Eval(d, env)

\* C1 as stated: for every modifier M, AND(M, empty) = M, OR(M, empty) = M
\* and NOT(empty) = empty.
C1_AsStated ==
    /\ (qop = "and" /\ qb = EmptyModifier) => qr = qa
    /\ (qop = "or" /\ qb = EmptyModifier) => qr = qa
    /\ (qop = "invert" /\ qa = EmptyModifier) => qr = EmptyModifier

\* C1 amended: AND(M, empty) = M and NOT(empty) = empty for every M;
\* OR(M, empty) = M when M's predicate or M's having-predicate is empty,
\* and otherwise OR(M, empty) is the having-form of M: empty predicate,
\* M's joins, having-predicate (M.predicate AND M.having).
C1_EmptyIdentity ==
    /\ (qop = "and" /\ qb = EmptyModifier) => qr = qa
    /\ (qop = "invert" /\ qa = EmptyModifier) => qr = EmptyModifier
    /\ (qop = "or" /\ qb = EmptyModifier) =>
          IF Truthy(qa.where_criterion) /\ Truthy(qa.having_criterion)
          THEN /\ qr.where_criterion = EmptyCriterion
               /\ qr.joins = qa.joins
               /\ qr.having_criterion =
                     [op |-> "and", id |-> <<>>,
                      args |-> <<qa.where_criterion, qa.having_criterion>>]
          ELSE qr = qa

C1_Witness ==
    /\ qop = "or"
    /\ qb = EmptyModifier
    /\ Truthy(qa.where_criterion)
    /\ Truthy(qa.having_criterion)
    /\ qa.joins # <<>>

\* C2: OR(A, B) with a having-predicate on either side has an empty
\* predicate and having = (A.predicate AND A.having) OR (B.predicate AND
\* B.having); with none it has an empty having-predicate and predicate =
\* A.predicate OR B.predicate; all under the empty-absorbing rule.
C2_OrCollapse ==
    qop = "or" =>
        IF Truthy(qa.having_criterion) \/ Truthy(qb.having_criterion)
        THEN /\ qr.where_criterion = EmptyCriterion
             /\ qr.having_criterion =
                   AbsorbOr(AbsorbAnd(qa.where_criterion, qa.having_criterion),
                            AbsorbAnd(qb.where_criterion, qb.having_criterion))
        ELSE /\ qr.having_criterion = EmptyCriterion
             /\ qr.where_criterion =
                   AbsorbOr(qa.where_criterion, qb.where_criterion)

C2_Witness ==
    /\ qop = "or"
    /\ ~Truthy(qa.having_criterion)
    /\ Truthy(qa.where_criterion)
    /\ Truthy(qb.having_criterion)
    /\ Truthy(qb.where_criterion)
    /\ qr.having_criterion.op = "or"

\* The three cases of NOT
NotCaseHaving(A) == Truthy(A.having_criterion)
NotCaseWhere(A) == Truthy(A.where_criterion) /\ ~Truthy(A.having_criterion)
NotCaseEmpty(A) == ~Truthy(A.where_criterion) /\ ~Truthy(A.having_criterion)

\* C3: NOT(A) has an empty predicate and having NOT(A.predicate AND
\* A.having) when A has a having-predicate; predicate NOT(A.predicate) and
\* empty having when A has only a predicate; both empty when A has neither;
\* exactly one of the three cases applies.
C3_NotCases ==
    qop = "invert" =>
        /\ NotCaseHaving(qa) =>
              /\ qr.where_criterion = EmptyCriterion
              /\ qr.having_criterion =
                    Negate(AbsorbAnd(qa.where_criterion, qa.having_criterion))
        /\ NotCaseWhere(qa) =>
              /\ qr.where_criterion = Negate(qa.where_criterion)
              /\ qr.having_criterion = EmptyCriterion
        /\ NotCaseEmpty(qa) =>
              /\ qr.where_criterion = EmptyCriterion
              /\ qr.having_criterion = EmptyCriterion
        /\ Cardinality({i \in 1..3 :
              <<NotCaseHaving(qa), NotCaseWhere(qa), NotCaseEmpty(qa)>>[i]}) = 1

C3_Witness ==
    /\ qop = "invert"
    /\ Truthy(qa.having_criterion)
    /\ Truthy(qa.where_criterion)
    /\ qr.having_criterion.op = "not"

\* C4: joins are never dropped, reordered or deduplicated: AND and OR give
\* the left operand's joins followed by the right operand's, NOT keeps the
\* operand's joins, whatever expression the operands came from.
C4_JoinsConcatenate ==
    /\ qop \in {"and", "or"} =>
          /\ qr.joins = qa.joins \o qb.joins
          /\ Len(qr.joins) = Len(qa.joins) + Len(qb.joins)
    /\ qop = "invert" => qr.joins = qa.joins

C4_Witness ==
    /\ qop = "or"
    /\ qdepth = MaxDepth
    /\ Truthy(qb.having_criterion)
    /\ Len(qa.joins) >= 2
    /\ qa.joins[1] # qa.joins[2]
    /\ \E i \in 1..Len(qa.joins) : qb.joins # <<>> /\ qa.joins[i] = qb.joins[1]
    /\ Len(qr.joins) >= 3

\* the modifier A of a double negation NOT(NOT(A)) just computed
IsDoubleNegation == qop = "invert" /\ qprev.op = "invert"

\* C5 as stated: NOT(NOT(A)) of a predicate-only A has A's predicate again
\* (having empty, joins unchanged); with a having-predicate on A it is in
\* having-form.
C5_AsStated ==
    IsDoubleNegation =>
        /\ NotCaseWhere(qprev.a) =>
              /\ qr.where_criterion = qprev.a.where_criterion
              /\ qr.having_criterion = EmptyCriterion
              /\ qr.joins = qprev.a.joins
        /\ NotCaseHaving(qprev.a) => qr.where_criterion = EmptyCriterion

\* C5 amended: NOT(NOT(A)) of a predicate-only A has the predicate
\* NOT(NOT(A.predicate)): not the same expression as A.predicate but
\* logically equivalent to it (same truth value on every row); having stays
\* empty and joins unchanged.  With a having-predicate on A it is in
\* having-form (empty predicate, non-empty having).
C5_DoubleNegation ==
    IsDoubleNegation =>
        /\ NotCaseWhere(qprev.a) =>
              /\ qr.where_criterion = Negate(Negate(qprev.a.where_criterion))
              /\ qr.where_criterion # qprev.a.where_criterion
              /\ Equivalent(qr.where_criterion, qprev.a.where_criterion)
              /\ qr.having_criterion = EmptyCriterion
              /\ qr.joins = qprev.a.joins
        /\ NotCaseHaving(qprev.a) =>
              /\ qr.where_criterion = EmptyCriterion
              /\ Truthy(qr.having_criterion)
              /\ qr # qprev.a

C5_Witness ==
    /\ IsDoubleNegation
    /\ NotCaseWhere(qprev.a)
    /\ qprev.a.joins # <<>>
    /\ qr.where_criterion.op = "not"

(***************************************************************************)
(* Schema generator: BaseSchemaGenerator.get_create_schema_sql             *)
(*                                                                         *)
(* A model is [table, fks, m2m]: its table name, the tables its foreign-   *)
(* key / one-to-one fields reference, and its many-to-many fields          *)
(* [through, generated] in declaration order.  A statement of the schema   *)
(* text is [kind, name].                                                   *)
(***************************************************************************)
TableStatement(table) == [kind |-> "table", name |-> table]

M2MStatement(through) == [kind |-> "m2m", name |-> through]

\* the "m2m_tables" of a plan with the generated reverse sides emitting too
M2MTablesForCreate_all(model) ==
    [i \in 1..Len(model.m2m) |-> M2MStatement(model.m2m[i].through)]

\* the "m2m_tables" of a plan: one statement per many-to-many field that is
\* not the generated reverse side, in field order
M2MTablesForCreate(model) ==
    LET own == SelectSeq(model.m2m, LAMBDA f : ~f.generated)
    IN  [i \in 1..Len(own) |-> M2MStatement(own[i].through)]

\* the plan _get_table_sql returns for a model
_get_table_sql(model) ==
    [table                 |-> model.table,
     table_creation_string |-> TableStatement(model.table),
     references            |-> model.fks,
     m2m_tables            |-> M2MTablesForCreate(model)]

tables_to_create_count == Len(models_to_create)

\* the generator's test with the table's own name left out
Placeable_noself(t, created) == t.references \subseteq created

\* t["references"].issubset(created_tables | {t["table"]})
Placeable(t, created) == t.references \subseteq (created \cup {t.table})

\* next(t for t in tables_to_create if ...): index of the first placeable plan
HasPlaceable ==
    \E i \in DOMAIN tables_to_create : Placeable(tables_to_create[i], created_tables)

NextTableIndex ==
    CHOOSE i \in DOMAIN tables_to_create :
        /\ Placeable(tables_to_create[i], created_tables)
        /\ \A j \in 1..(i - 1) : ~Placeable(tables_to_create[j], created_tables)

\* list.remove(x): the list without its first element equal to x
ListRemove(list, x) ==
    LET k == CHOOSE i \in DOMAIN list :
                 list[i] = x /\ \A j \in 1..(i - 1) : list[j] # x
    IN  SubSeq(list, 1, k - 1) \o SubSeq(list, k + 1, Len(list))

\* Model sets: tables 1..n in list order, every reference inside the set.
\* At most one model owns a many-to-many field (to the next model of the
\* set), whose generated reverse side sits on the target model.
FkSets(n) == {S \in SUBSET (1..n) : Cardinality(S) <= MaxFks}

M2MFields(t, owner, n) ==
    (IF t = owner THEN <<[through |-> owner, generated |-> FALSE]>> ELSE <<>>)
    \o (IF owner # 0 /\ t = (owner % n) + 1
        THEN <<[through |-> owner, generated |-> TRUE]>> ELSE <<>>)

ModelSet(n, fk, owner) ==
    [t \in 1..n |-> [table |-> t, fks |-> fk[t], m2m |-> M2MFields(t, owner, n)]]

RECURSIVE M2MFieldsOf(_, _, _, _)
\* the many-to-many fields of table t when every model of owners owns one
\* (to the next model of the set), for the owners from o on
M2MFieldsOf(t, owners, n, o) ==
    IF o > n THEN <<>>
    ELSE (IF o \in owners THEN M2MFields(t, o, n) ELSE <<>>)
         \o M2MFieldsOf(t, owners, n, o + 1)

\* at most one reference per model
FkSingles(n) == {{}} \cup {{r} : r \in 1..n}

\* model sets in which any number of models own a many-to-many field
M2MModelSet(n, fk, owners) ==
    [t \in 1..n |-> [table |-> t, fks |-> fk[t], m2m |-> M2MFieldsOf(t, owners, n, 1)]]

IdleSG ==
    /\ models_to_create = <<>>
    /\ tables_to_create = <<>>
    /\ created_tables = {}
    /\ ordered_tables_for_create = <<>>
    /\ m2m_tables_to_create = <<>>
    /\ sgpc = "idle"
    /\ sgerror = ""
    /\ sgresult = <<>>

\* get_create_schema_sql up to the start of its placement loop
InitSG ==
    /\ \E n \in 0..MaxTables :
          \E fk \in [1..n -> FkSets(n)], owner \in 0..n :
              models_to_create = ModelSet(n, fk, owner)
    /\ tables_to_create =
          [i \in 1..Len(models_to_create) |-> _get_table_sql(models_to_create[i])]
    /\ created_tables = {}
    /\ ordered_tables_for_create = <<>>
    /\ m2m_tables_to_create = <<>>
    /\ sgpc = "loop"
    /\ sgerror = ""
    /\ sgresult = <<>>

\* get_create_schema_sql up to the start of its placement loop, for model
\* sets with several many-to-many owners
InitM2M ==
    /\ \E n \in 0..MaxTables :
          \E fk \in [1..n -> FkSingles(n)], owners \in SUBSET (1..n) :
              models_to_create = M2MModelSet(n, fk, owners)
    /\ tables_to_create =
          [i \in 1..Len(models_to_create) |-> _get_table_sql(models_to_create[i])]
    /\ created_tables = {}
    /\ ordered_tables_for_create = <<>>
    /\ m2m_tables_to_create = <<>>
    /\ sgpc = "loop"
    /\ sgerror = ""
    /\ sgresult = <<>>

\* one iteration of the loop that finds a placeable plan
PlaceTable ==
    /\ sgpc = "loop"
    /\ Cardinality(created_tables) # tables_to_create_count
    /\ HasPlaceable
    /\ LET next_table_for_create == tables_to_create[NextTableIndex]
       IN  /\ tables_to_create' = ListRemove(tables_to_create, next_table_for_create)
           /\ created_tables' = created_tables \cup {next_table_for_create.table}
           /\ ordered_tables_for_create' =
                 Append(ordered_tables_for_create,
                        next_table_for_create.table_creation_string)
           /\ m2m_tables_to_create' =
                 m2m_tables_to_create \o next_table_for_create.m2m_tables
    /\ UNCHANGED <<models_to_create, sgpc, sgerror, sgresult>>
    /\ UNCHANGED notSG

\* the loop giving up by returning what was placed so far
RaiseCyclic_partial ==
    /\ sgpc = "loop"
    /\ Cardinality(created_tables) # tables_to_create_count
    /\ ~HasPlaceable
    /\ sgpc' = "returned"
    /\ sgresult' = ordered_tables_for_create \o m2m_tables_to_create
    /\ UNCHANGED <<models_to_create, tables_to_create, created_tables,
                   ordered_tables_for_create, m2m_tables_to_create, sgerror>>
    /\ UNCHANGED notSG

\* one iteration that finds none: StopIteration becomes ConfigurationError
RaiseCyclic ==
    /\ sgpc = "loop"
    /\ Cardinality(created_tables) # tables_to_create_count
    /\ ~HasPlaceable
    /\ sgpc' = "raised"
    /\ sgerror' = "ConfigurationError: Can't create schema due to cyclic fk references"
    /\ UNCHANGED <<models_to_create, tables_to_create, created_tables,
                   ordered_tables_for_create, m2m_tables_to_create, sgresult>>
    /\ UNCHANGED notSG

\* the loop's break and the return of the joined statements
ReturnSchema ==
    /\ sgpc = "loop"
    /\ Cardinality(created_tables) = tables_to_create_count
    /\ sgresult' = ordered_tables_for_create \o m2m_tables_to_create
    /\ sgpc' = "returned"
    /\ UNCHANGED <<models_to_create, tables_to_create, created_tables,
                   ordered_tables_for_create, m2m_tables_to_create, sgerror>>
    /\ UNCHANGED notSG

NextSG ==
    \/ PlaceTable
    \/ RaiseCyclic
    \/ ReturnSchema

(***************************************************************************)
(* Claims about schema ordering (checked under SpecSG)                     *)
(***************************************************************************)
ModelTables == {models_to_create[i].table : i \in DOMAIN models_to_create}

ModelOf(t) ==
    models_to_create[CHOOSE i \in DOMAIN models_to_create :
                         models_to_create[i].table = t]

\* the other tables a table references
OtherRefs(t) == ModelOf(t).fks \ {t}

RECURSIVE ReachN(_, _)
ReachN(S, k) ==
    IF k = 0 THEN S
    ELSE ReachN(S \cup UNION {OtherRefs(u) : u \in S}, k - 1)

\* some chain of references through two or more distinct tables returns
\* to its start
HasCycle ==
    \E t \in ModelTables : t \in ReachN(OtherRefs(t), Len(models_to_create))

\* positions of a table's statement in the returned text
Positions(t) == {i \in DOMAIN sgresult : sgresult[i] = TableStatement(t)}

\* C6: for a model set without cyclic references (self-references
\* allowed) generation never fails, keeps going until it returns, and the
\* returned text has every table's statement after the statements of all
\* other tables it references.
C6_AcyclicOrdered ==
    ~HasCycle =>
        /\ sgpc # "raised"
        /\ sgpc = "loop" => ENABLED (PlaceTable \/ ReturnSchema)
        /\ sgpc = "returned" =>
              \A t \in ModelTables :
                  /\ Positions(t) # {}
                  /\ \A r \in OtherRefs(t) :
                        /\ Positions(r) # {}
                        /\ \A i \in Positions(t), j \in Positions(r) : j < i

C6_Witness ==
    /\ sgpc = "returned"
    /\ ~HasCycle
    /\ Len(models_to_create) = MaxTables
    /\ models_to_create[1].fks = {1, 2}
    /\ sgresult[1] # TableStatement(1)

\* C7: for a model set with a reference cycle through two or more tables
\* generation never returns: it ends in a ConfigurationError reporting a
\* cyclic fk reference and no schema text is returned, not even for the
\* tables placed before the cycle was reached.
C7_CyclicFails ==
    HasCycle =>
        /\ sgpc # "returned"
        /\ sgresult = <<>>
        /\ sgpc = "loop" => ENABLED (PlaceTable \/ RaiseCyclic)
        /\ sgpc = "raised" =>
              sgerror = "ConfigurationError: Can't create schema due to cyclic fk references"

C7_Witness ==
    /\ sgpc = "raised"
    /\ HasCycle
    /\ ordered_tables_for_create # <<>>
    /\ sgresult = <<>>

\* the models that own a through table, and the positions of its statement
Owners ==
    {t \in ModelTables : \E i \in DOMAIN ModelOf(t).m2m : ~ModelOf(t).m2m[i].generated}

M2MPositions(o) == {i \in DOMAIN sgresult : sgresult[i] = M2MStatement(o)}

\* position of the table statement of a model in the returned text
TablePosition(t) == CHOOSE i \in DOMAIN sgresult : sgresult[i] = TableStatement(t)

\* C15: on success the returned text holds the table statement of every
\* model exactly once, in placement order, then the through-table
\* statements, ordered by the placement of the model that emitted them; a
\* through table is emitted once, by the many-to-many field that is not the
\* generated reverse side.
C15_SchemaText ==
    sgpc = "returned" =>
        LET n == Len(models_to_create)
        IN  /\ \A t \in ModelTables : Cardinality(Positions(t)) = 1
            /\ Len(sgresult) >= n
            /\ SubSeq(sgresult, 1, n) = ordered_tables_for_create
            /\ \A i \in DOMAIN sgresult : sgresult[i].kind = "table" <=> i <= n
            /\ \A i, j \in DOMAIN sgresult :
                  (n < i /\ i < j) =>
                      TablePosition(sgresult[i].name) < TablePosition(sgresult[j].name)
            /\ \A o \in ModelTables :
                  Cardinality(M2MPositions(o)) = IF o \in Owners THEN 1 ELSE 0

\* two through tables were emitted, the one of the model listed later first,
\* because that model was placed first
C15_Witness ==
    /\ sgpc = "returned"
    /\ Len(models_to_create) = 2
    /\ Owners = {1, 2}
    /\ sgresult = <<TableStatement(2), TableStatement(1),
                    M2MStatement(2), M2MStatement(1)>>

(***************************************************************************)
(* Generated identifier names: _make_hash, _generate_index_name,           *)
(* _generate_fk_name.  A string is a sequence of one-character strings.    *)
(***************************************************************************)
TableSlice == 11        \* table_name[:11]
FieldSlice == 7         \* field_names[0][:7]
IndexHashLen == 6       \* _make_hash(..., length=6)
FkTableSlice == 8       \* from_table[:8], to_table[:8]
FkHashLen == 8          \* _make_hash(..., length=8)
DigestLen == 64         \* characters of sha256(...).hexdigest()
NameLimit == 30         \* the length limit the generator's comment states

Alphabet ==
    <<"a", "b", "c", "d", "e", "f", "g", "h", "i", "j", "k", "l", "m",
      "n", "o", "p", "q", "r", "s", "t", "u", "v", "w", "x", "y", "z",
      "_", ";">>

HexDigits ==
    <<"0", "1", "2", "3", "4", "5", "6", "7",
      "8", "9", "a", "b", "c", "d", "e", "f">>

CharCode(c) == CHOOSE i \in DOMAIN Alphabet : Alphabet[i] = c

\* s[:n]
Slice(s, n) == SubSeq(s, 1, IF n < Len(s) THEN n ELSE Len(s))

\* sep.join(parts)
RECURSIVE Join(_, _)
Join(parts, sep) ==
    IF parts = <<>> THEN <<>>
    ELSE IF Len(parts) = 1 THEN parts[1]
    ELSE parts[1] \o sep \o Join(Tail(parts), sep)

\* a position-weighted checksum standing for the sha256 state
RECURSIVE Checksum(_, _)
Checksum(text, acc) ==
    IF text = <<>> THEN acc
    ELSE Checksum(Tail(text), (acc * 31 + CharCode(Head(text))) % 65536)

\* sha256(text).hexdigest(): DigestLen hexadecimal characters that depend
\* on nothing but the text
HexDigest(text) ==
    LET h == Checksum(text, 7)
    IN  [k \in 1..DigestLen |-> HexDigits[((h \div k + h * k + k) % 16) + 1]]

_make_hash(args, length) == Slice(HexDigest(Join(args, <<";">>)), length)

\* the index name with one more character of the table name kept
_generate_index_name_wide(prefix, table_name, field_names) ==
    Join(<<prefix,
           Slice(table_name, TableSlice + 1),
           Slice(field_names[1], FieldSlice),
           _make_hash(<<table_name>> \o field_names, IndexHashLen)>>, <<"_">>)

\* "{}_{}_{}_{}".format(prefix, table_name[:11], field_names[0][:7], hash)
_generate_index_name(prefix, table_name, field_names) ==
    Join(<<prefix,
           Slice(table_name, TableSlice),
           Slice(field_names[1], FieldSlice),
           _make_hash(<<table_name>> \o field_names, IndexHashLen)>>, <<"_">>)

\* "fk_{f}_{t}_{h}".format(f=from_table[:8], t=to_table[:8], h=hash)
_generate_fk_name(from_table, from_field, to_table, to_field) ==
    Join(<<<<"f", "k">>,
           Slice(from_table, FkTableSlice),
           Slice(to_table, FkTableSlice),
           _make_hash(<<from_table, from_field, to_table, to_field>>, FkHashLen)>>,
         <<"_">>)

\* table and field names of every length up to MaxNameLen
Word(seed, n) == [i \in 1..n |-> seed[((i - 1) % Len(seed)) + 1]]

TableNames == {Word(<<"e", "v", "e", "n", "t", "_", "t", "e", "a", "m">>, n) : n \in 1..MaxNameLen}

FieldNames == {Word(<<"c", "r", "e", "a", "t", "e", "d", "_", "a", "t">>, n) : n \in 1..MaxNameLen}

FieldLists ==
    {<<f>> : f \in FieldNames} \cup {<<f, <<"i", "d">>>> : f \in FieldNames}

NoName == <<>>\* a call is <<function, table, fields, target table>>
NoCall == <<"none", <<>>, <<>>, <<>>>>

IdleNM ==
    /\ nmcall = NoCall
    /\ nmname = NoName
    /\ nmprev = NoName

InitNM == IdleNM

\* _get_index_sql: index_name=self._generate_index_name("idx", model, field_names)
GetIndexSql ==
    /\ nmcall = NoCall
    /\ \E table_name \in TableNames, field_names \in FieldLists :
          /\ nmcall' = <<"idx", table_name, field_names, <<>>>>
          /\ nmname' = _generate_index_name(<<"i", "d", "x">>, table_name, field_names)
    /\ UNCHANGED nmprev
    /\ UNCHANGED notNM

\* _get_unique_constraint_sql: self._generate_index_name("uid", model, field_names)
GetUniqueConstraintSql ==
    /\ nmcall = NoCall
    /\ \E table_name \in TableNames, field_names \in FieldLists :
          /\ nmcall' = <<"uid", table_name, field_names, <<>>>>
          /\ nmname' = _generate_index_name(<<"u", "i", "d">>, table_name, field_names)
    /\ UNCHANGED nmprev
    /\ UNCHANGED notNM

\* _get_table_sql: constraint_name=self._generate_fk_name(table, db_field, target, pk)
GenerateFkName ==
    /\ nmcall = NoCall
    /\ \E from_table \in TableNames, target \in TableNames,
          from_field \in {Word(<<"o", "w", "n", "e", "r", "_", "i", "d">>, n) : n \in {5, 8}} :
          /\ nmcall' = <<"fk", from_table, <<from_field, <<"i", "d">>>>, target>>
          /\ nmname' = _generate_fk_name(from_table, from_field, target, <<"i", "d">>)
    /\ UNCHANGED nmprev
    /\ UNCHANGED notNM

\* the schema generated once more: the call made before is made again
\* with the same arguments
Regenerate ==
    /\ nmcall # NoCall
    /\ nmprev = NoName
    /\ nmprev' = nmname
    /\ nmname' =
          CASE nmcall[1] = "idx" ->
                   _generate_index_name(<<"i", "d", "x">>, nmcall[2], nmcall[3])
            [] nmcall[1] = "uid" ->
                   _generate_index_name(<<"u", "i", "d">>, nmcall[2], nmcall[3])
            [] OTHER ->
                   _generate_fk_name(nmcall[2], nmcall[3][1], nmcall[4], nmcall[3][2])
    /\ UNCHANGED nmcall
    /\ UNCHANGED notNM

NextNM ==
    \/ GetIndexSql
    \/ GetUniqueConstraintSql
    \/ GenerateFkName
    \/ Regenerate

(***************************************************************************)
(* Claims about generated names (checked under SpecNM)                     *)
(***************************************************************************)

NoField ==
    [name |-> "", kind |-> "", field_type |-> "", source_field |-> "",
     through |-> "", backward_key |-> "", forward_key |-> "", relation_field |-> ""]

FieldsMap(model) ==
    CASE model = "Book" ->
           {[NoField EXCEPT !.name = "author", !.kind = "fk",
                            !.field_type = "Author", !.source_field = "author_id"],
            [NoField EXCEPT !.name = "sequel", !.kind = "o2o",
                            !.field_type = "Book", !.source_field = "sequel_id"],
            [NoField EXCEPT !.name = "tags", !.kind = "m2m", !.field_type = "Tag",
                            !.through = "book_tag", !.backward_key = "book_id",
                            !.forward_key = "tag_id"]}
      [] model = "Author" ->
           {[NoField EXCEPT !.name = "books", !.kind = "backward_fk",
                            !.field_type = "Book", !.relation_field = "author_id"]}
      [] OTHER ->
           {[NoField EXCEPT !.name = "books", !.kind = "m2m", !.field_type = "Book",
                            !.through = "book_tag", !.backward_key = "tag_id",
                            !.forward_key = "book_id"]}

NoParam ==
    [key |-> <<>>, field |-> "", source_field |-> "", operator |-> "",
     table |-> "", backward_key |-> ""]

ColumnFilter(key, column, operator) ==
    [NoParam EXCEPT !.key = key, !.field = column, !.source_field = column,
                    !.operator = operator]

RelatedFilter(key, table, column, backward_key) ==
    [NoParam EXCEPT !.key = key, !.field = column, !.operator = "eq",
                    !.table = table, !.backward_key = backward_key]

\* model._meta.filters
Filters(model) ==
    CASE model = "Book" ->
           {ColumnFilter(<<"id">>, "id", "eq"),
            ColumnFilter(<<"title">>, "title", "eq"),
            ColumnFilter(<<"title", "contains">>, "title", "contains"),
            ColumnFilter(<<"title", "isnull">>, "title", "isnull"),
            ColumnFilter(<<"author_id">>, "author_id", "eq"),
            ColumnFilter(<<"sequel_id">>, "sequel_id", "eq"),
            RelatedFilter(<<"tags">>, "book_tag", "tag_id", "book_id")}
      [] model = "Author" ->
           {ColumnFilter(<<"id">>, "id", "eq"),
            ColumnFilter(<<"name">>, "name", "eq"),
            ColumnFilter(<<"name", "isnull">>, "name", "isnull"),
            RelatedFilter(<<"books">>, "book", "id", "author_id")}
      [] OTHER ->
           {ColumnFilter(<<"id">>, "id", "eq"),
            ColumnFilter(<<"name">>, "name", "eq"),
            RelatedFilter(<<"books">>, "book_tag", "book_id", "tag_id")}

FieldsOfKind(model, kinds) == {f.name : f \in {g \in FieldsMap(model) : g.kind \in kinds}}

Meta(model) ==
    [table       |-> CASE model = "Book" -> "book"
                       [] model = "Author" -> "author"
                       [] OTHER -> "tag",
     db_pk_field |-> "id",
     fields      |-> CASE model = "Book" ->
                            {"id", "title", "author", "author_id", "sequel",
                             "sequel_id", "tags"}
                       [] OTHER -> {"id", "name", "books"},
     fk_fields   |-> FieldsOfKind(model, {"fk"}),
     o2o_fields  |-> FieldsOfKind(model, {"o2o"}),
     m2m_fields  |-> FieldsOfKind(model, {"m2m"}),
     fetch_fields |-> FieldsOfKind(model, {"fk", "o2o", "m2m", "backward_fk"}),
     filter_keys |-> {f.key : f \in Filters(model)}]

GetField(model, name) == CHOOSE f \in FieldsMap(model) : f.name = name

\* model._meta.get_filter(key)
GetFilter(model, key) == CHOOSE f \in Filters(model) : f.key = key

\* custom-filter registries: key -> [field, operator], with the annotation
\* the key compares being an aggregate or not
NoRegistry == {}

Registry(is_aggregate) ==
    {[key |-> <<"total", "gt">>, field |-> "total", operator |-> "gt",
      is_aggregate |-> is_aggregate]}

Registries == {NoRegistry, Registry(TRUE), Registry(FALSE)}

CustomKeys(custom_filters) == {c.key : c \in custom_filters}

(***************************************************************************)
(* Filter values: <<"raw", v>> a plain value, <<"obj", pk>> a model        *)
(* instance with that pk, <<"none", "">> None.                             *)
(***************************************************************************)
HasPk(value) == value[1] = "obj"

\* value.pk
PkOf(value) == <<"raw", value[2]>>

\* the value as it is handed to the comparison: a plain value as it is, an
\* object that was not replaced by its pk as the object itself
Encoded(value) == IF HasPk(value) THEN "object" ELSE value[2]

(***************************************************************************)
(* Filter nodes.  A node is [class, children, filters, join_type,          *)
(* _is_negated]; filters is the kwargs dict as a sequence of <<key, value>> *)
(* pairs in insertion order.  A value that is no node has another class.   *)
(***************************************************************************)
Node(children, filters, join_type, negated) ==
    [class |-> "Q", children |-> children, filters |-> filters,
     join_type |-> join_type, _is_negated |-> negated]

NoNode == [Node(<<>>, <<>>, "", FALSE) EXCEPT !.class = "none"]

\* an ordered argument that is not a Q
NotANode == [Node(<<>>, <<>>, "", FALSE) EXCEPT !.class = "dict"]

NoErr == [type |-> "", message |-> ""]

Built(node) == [ok |-> TRUE, node |-> node, error |-> NoErr]

\* raise OperationalError(message)
Raised(message) ==
    [ok |-> FALSE, node |-> NoNode,
     error |-> [type |-> "OperationalError", message |-> message]]

\* Q.__init__ from its isinstance check on: no keyword wrap left to do
CheckedInit(args, join_type, kwargs) ==
    IF \E i \in DOMAIN args : args[i].class # "Q"
    THEN Raised("All ordered arguments must be Q nodes")
    ELSE IF join_type \notin {"AND", "OR"}
    THEN Raised("join_type must be AND or OR")
    ELSE Built(Node(args, kwargs, join_type, FALSE))

\* Q.__init__ without the isinstance check on the ordered arguments
Q_init_unchecked(args, join_type, kwargs) ==
    IF join_type \notin {"AND", "OR"}
    THEN Raised("join_type must be AND or OR")
    ELSE Built(Node(args, kwargs, join_type, FALSE))

\* Q(*args, join_type=..., **kwargs)
Q_init(args, join_type, kwargs) ==
    IF args # <<>> /\ kwargs # <<>>
    THEN LET newarg == CheckedInit(<<>>, join_type, kwargs)
         IN  IF ~newarg.ok THEN newarg
             ELSE CheckedInit(<<newarg.node>> \o args, join_type, <<>>)
    ELSE CheckedInit(args, join_type, kwargs)

\* Q.__and__
Q_and(self, other) ==
    IF other.class # "Q"
    THEN Raised("AND operation requires a Q node")
    ELSE Q_init(<<self, other>>, "AND", <<>>)

\* Q.__or__
Q_or(self, other) ==
    IF other.class # "Q"
    THEN Raised("OR operation requires a Q node")
    ELSE Q_init(<<self, other>>, "OR", <<>>)

\* Q.negate on a node
Negated(node) == [node EXCEPT !._is_negated = ~node._is_negated]

\* Q.__invert__: a fresh node from self's children, join type and filters,
\* then negate() on it
Q_invert(self) ==
    LET q == Q_init(self.children, self.join_type, self.filters)
    IN  IF q.ok THEN Built(Negated(q.node)) ELSE q

(***************************************************************************)
(* Resolution of a node against a model                                    *)
(***************************************************************************)
NoError == [type |-> "", key |-> <<>>, allowed |-> <<>>]

Resolved(modifier) == [ok |-> TRUE, modifier |-> modifier, error |-> NoError]

Failed(error) == [ok |-> FALSE, modifier |-> EmptyModifier, error |-> error]

\* every field, relation and custom-filter name of the schema in the order
\* sorted() gives them
NameOrder ==
    <<<<"author">>, <<"author_id">>, <<"books">>, <<"id">>, <<"name">>,
      <<"sequel">>, <<"sequel_id">>, <<"tags">>, <<"title">>, <<"total", "gt">>>>

\* sorted(list(names)) for a set of names
Sorted(names) == SelectSeq(NameOrder, LAMBDA k : k \in names)

\* sorted(list(fields | fetch_fields | set(custom_filters)))
Allowed(model, custom_filters) ==
    Sorted({<<f>> : f \in Meta(model).fields \cup Meta(model).fetch_fields}
           \cup CustomKeys(custom_filters))

\* key.split("__")[0]
FirstSegment(key) == key[1]

\* "__".join(key.split("__")[1:])
RestOfKey(key) == IF Len(key) = 1 THEN <<"">> ELSE Tail(key)

IsFieldName(key, names) == Len(key) = 1 /\ key[1] \in names

\* _get_actual_filter_params looking the whole key up in fetch_fields
\* instead of its first segment
_get_actual_filter_params_wholekey(model, key, value, custom_filters) ==
    IF IsFieldName(key, Meta(model).fk_fields \cup Meta(model).o2o_fields)
    THEN [ok |-> TRUE, key |-> <<GetField(model, key[1]).source_field>>,
          value |-> IF HasPk(value) THEN PkOf(value) ELSE value, error |-> NoError]
    ELSE IF IsFieldName(key, Meta(model).m2m_fields)
    THEN [ok |-> TRUE, key |-> key,
          value |-> IF HasPk(value) THEN PkOf(value) ELSE value, error |-> NoError]
    ELSE IF \/ IsFieldName(key, Meta(model).fetch_fields)
            \/ key \in CustomKeys(custom_filters)
            \/ key \in Meta(model).filter_keys
    THEN [ok |-> TRUE, key |-> key, value |-> value, error |-> NoError]
    ELSE [ok |-> FALSE, key |-> key, value |-> value,
          error |-> [type |-> "FieldError", key |-> key,
                     allowed |-> Allowed(model, custom_filters)]]

_get_actual_filter_params(model, key, value, custom_filters) ==
    IF IsFieldName(key, Meta(model).fk_fields \cup Meta(model).o2o_fields)
    THEN [ok |-> TRUE, key |-> <<GetField(model, key[1]).source_field>>,
          value |-> IF HasPk(value) THEN PkOf(value) ELSE value, error |-> NoError]
    ELSE IF IsFieldName(key, Meta(model).m2m_fields)
    THEN [ok |-> TRUE, key |-> key,
          value |-> IF HasPk(value) THEN PkOf(value) ELSE value, error |-> NoError]
    ELSE IF \/ FirstSegment(key) \in Meta(model).fetch_fields
            \/ key \in CustomKeys(custom_filters)
            \/ key \in Meta(model).filter_keys
    THEN [ok |-> TRUE, key |-> key, value |-> value, error |-> NoError]
    ELSE [ok |-> FALSE, key |-> key, value |-> value,
          error |-> [type |-> "FieldError", key |-> key,
                     allowed |-> Allowed(model, custom_filters)]]

\* a join step (table, table1.column1 == table2.column2)
Join2(table, table1, column1, table2, column2) ==
    <<table, <<table1, column1, table2, column2>>>>

\* _process_filter_kwarg: (criterion, join)
_process_filter_kwarg(model, key, value) ==
    LET table == Meta(model).table
        isnull == value[1] = "none" /\ (key \o <<"isnull">>) \in Meta(model).filter_keys
        param == IF isnull THEN GetFilter(model, key \o <<"isnull">>)
                 ELSE GetFilter(model, key)
        val == IF isnull THEN "True" ELSE Encoded(value)
    IN  IF param.table # ""
        THEN [criterion |-> Leaf(<<param.table, param.field, param.operator, val>>),
              joins |-> <<Join2(param.table, table, Meta(model).db_pk_field,
                                param.table, param.backward_key)>>]
        ELSE [criterion |-> Leaf(<<table, param.source_field, param.operator, val>>),
              joins |-> <<>>]

\* _get_joins_for_related_field
_get_joins_for_related_field(model, related_field, related_field_name) ==
    LET table == Meta(model).table
        table_pk == Meta(model).db_pk_field
        related_table == Meta(related_field.field_type).table
        related_table_pk == Meta(related_field.field_type).db_pk_field
    IN  IF related_field.kind = "m2m"
        THEN <<Join2(related_field.through, table, table_pk,
                     related_field.through, related_field.backward_key),
               Join2(related_table, related_field.through, related_field.forward_key,
                     related_table, related_table_pk)>>
        ELSE IF related_field.kind = "backward_fk"
        THEN <<Join2(related_table, table, table_pk,
                     related_table, related_field.relation_field)>>
        ELSE <<Join2(related_table, related_table, related_table_pk,
                     table, related_field_name \o "_id")>>

\* _resolve_custom_kwarg
_resolve_custom_kwarg(model, key, value, custom_filters) ==
    LET having_info == CHOOSE c \in custom_filters : c.key = key
        criterion == Leaf(<<"annotation", having_info.field,
                            having_info.operator, Encoded(value)>>)
    IN  IF having_info.is_aggregate
        THEN QueryModifier(EmptyCriterion, <<>>, criterion)
        ELSE QueryModifier(criterion, <<>>, EmptyCriterion)

RECURSIVE resolve(_, _, _)
RECURSIVE _resolve_kwargs_from(_, _, _, _, _)
RECURSIVE _resolve_children_from(_, _, _, _, _)

\* _resolve_nested_filter putting the relation's joins after those of the
\* remaining path
_resolve_nested_filter_appended(model, key, value, custom_filters) ==
    LET related_field_name == FirstSegment(key)
        related_field == GetField(model, related_field_name)
        required_joins ==
            _get_joins_for_related_field(model, related_field, related_field_name)
        modifier == resolve(Q_init(<<>>, "AND", <<<<RestOfKey(key), value>>>>).node,
                            related_field.field_type, custom_filters)
    IN  IF ~modifier.ok THEN modifier
        ELSE Resolved(QM_and(modifier.modifier,
                             QueryModifier(EmptyCriterion, required_joins, EmptyCriterion)))

\* _resolve_nested_filter
_resolve_nested_filter(model, key, value, custom_filters) ==
    LET related_field_name == FirstSegment(key)
        related_field == GetField(model, related_field_name)
        required_joins ==
            _get_joins_for_related_field(model, related_field, related_field_name)
        modifier == resolve(Q_init(<<>>, "AND", <<<<RestOfKey(key), value>>>>).node,
                            related_field.field_type, custom_filters)
    IN  IF ~modifier.ok THEN modifier
        ELSE Resolved(QM_and(QueryModifier(EmptyCriterion, required_joins, EmptyCriterion),
                             modifier.modifier))

\* _resolve_regular_kwarg
_resolve_regular_kwarg(model, key, value, custom_filters) ==
    IF key \notin Meta(model).filter_keys /\ FirstSegment(key) \in Meta(model).fetch_fields
    THEN _resolve_nested_filter(model, key, value, custom_filters)
    ELSE LET p == _process_filter_kwarg(model, key, value)
         IN  Resolved(QueryModifier(p.criterion, p.joins, EmptyCriterion))

\* _resolve_kwargs: the loop from the i-th keyword constraint on, with the
\* modifier folded so far, and the final negation
_resolve_kwargs_from(self, model, custom_filters, i, modifier) ==
    IF i > Len(self.filters)
    THEN Resolved(IF self._is_negated THEN QM_invert(modifier) ELSE modifier)
    ELSE LET actual == _get_actual_filter_params(model, self.filters[i][1],
                                                 self.filters[i][2], custom_filters)
         IN  IF ~actual.ok THEN Failed(actual.error)
             ELSE LET filter_modifier ==
                          IF actual.key \in CustomKeys(custom_filters)
                          THEN Resolved(_resolve_custom_kwarg(model, actual.key,
                                                              actual.value, custom_filters))
                          ELSE _resolve_regular_kwarg(model, actual.key,
                                                      actual.value, custom_filters)
                  IN  IF ~filter_modifier.ok THEN filter_modifier
                      ELSE _resolve_kwargs_from(self, model, custom_filters, i + 1,
                               IF self.join_type = "AND"
                               THEN QM_and(modifier, filter_modifier.modifier)
                               ELSE QM_or(modifier, filter_modifier.modifier))

\* _resolve_children: the loop from the i-th child on, and the final negation
_resolve_children_from(self, model, custom_filters, i, modifier) ==
    IF i > Len(self.children)
    THEN Resolved(IF self._is_negated THEN QM_invert(modifier) ELSE modifier)
    ELSE LET node_modifier == resolve(self.children[i], model, custom_filters)
         IN  IF ~node_modifier.ok THEN node_modifier
             ELSE _resolve_children_from(self, model, custom_filters, i + 1,
                      IF self.join_type = "AND"
                      THEN QM_and(modifier, node_modifier.modifier)
                      ELSE QM_or(modifier, node_modifier.modifier))

\* Q.resolve
resolve(self, model, custom_filters) ==
    IF self.filters # <<>>
    THEN _resolve_kwargs_from(self, model, custom_filters, 1, EmptyModifier)
    ELSE _resolve_children_from(self, model, custom_filters, 1, EmptyModifier)

(***************************************************************************)
(* Filter nodes in use: a node is constructed from keyword constraints,    *)
(* combined and negated, and resolved against a model.                     *)
(***************************************************************************)
Models == {"Book", "Author"}

JoinTypes == {"AND", "OR", "XOR"}

Kw(key, value) == <<key, value>>

\* keyword dictionaries handed to the constructor
KwargSamples ==
    {<<>>,
     <<Kw(<<"title">>, <<"raw", "x">>)>>,
     <<Kw(<<"title">>, <<"none", "">>)>>,
     <<Kw(<<"author">>, <<"obj", "7">>)>>,
     <<Kw(<<"sequel">>, <<"raw", "7">>)>>,
     <<Kw(<<"tags">>, <<"obj", "7">>)>>,
     <<Kw(<<"bogus">>, <<"raw", "x">>)>>,
     <<Kw(<<"title", "bogus">>, <<"raw", "x">>)>>,
     <<Kw(<<"total", "gt">>, <<"raw", "5">>)>>,
     <<Kw(<<"author", "name">>, <<"raw", "x">>)>>,
     <<Kw(<<"author", "bogus">>, <<"raw", "x">>)>>,
     <<Kw(<<"tags", "name">>, <<"raw", "x">>)>>,
     <<Kw(<<"author", "books", "title">>, <<"raw", "x">>)>>,
     <<Kw(<<"author", "books", "bogus">>, <<"raw", "x">>)>>,
     <<Kw(<<"title">>, <<"raw", "x">>), Kw(<<"author", "bogus">>, <<"raw", "x">>)>>,
     <<Kw(<<"bogus">>, <<"raw", "x">>), Kw(<<"title">>, <<"raw", "x">>)>>,
     <<Kw(<<"author">>, <<"obj", "7">>), Kw(<<"total", "gt">>, <<"raw", "5">>)>>}

\* keyword dictionaries handed over together with ordered arguments
MixedKwargs ==
    {<<>>, <<Kw(<<"title">>, <<"raw", "x">>)>>}

\* ordered arguments: the node at hand and values that are no node
ArgLists(q) ==
    {<<NotANode>>} \cup
    (IF q.class = "Q" THEN {<<q>>, <<q, NotANode>>} ELSE {})

NoCallFN == <<<<>>, "", <<>>>>

NoResult == [ok |-> FALSE, modifier |-> EmptyModifier, error |-> NoError, model |-> ""]

IdleFN ==
    /\ fq = NoNode
    /\ fprev = NoNode
    /\ fcall = NoCallFN
    /\ fnew = NoNode
    /\ fnerr = NoErr
    /\ fres = NoResult
    /\ fcf = NoRegistry
    /\ fop = "idle"
    /\ fdepth = 0

InitFN ==
    /\ fq = NoNode
    /\ fprev = NoNode
    /\ fcall = NoCallFN
    /\ fnew = NoNode
    /\ fnerr = NoErr
    /\ fres = NoResult
    /\ fcf \in Registries
    /\ fop = "start"
    /\ fdepth = 0

\* the outcome r of an operation on the node at hand; an exception ends the
\* run
Outcome(op, call, r) ==
    /\ fop' = op
    /\ fcall' = call
    /\ fprev' = fq
    /\ fnew' = r.node
    /\ fnerr' = r.error
    /\ fq' = IF r.ok THEN r.node ELSE fq
    /\ fdepth' = IF r.ok THEN fdepth + 1 ELSE fdepth
    /\ UNCHANGED <<fres, fcf>>

\* q = Q(**kwargs) or Q(join_type=..., **kwargs)
Construct ==
    /\ fop = "start"
    /\ \E join_type \in JoinTypes, kwargs \in KwargSamples :
         Outcome("construct", <<<<>>, join_type, kwargs>>,
                 Q_init(<<>>, join_type, kwargs))
    /\ UNCHANGED notFN

\* q = Q(*args, join_type=..., **kwargs) with ordered arguments
ConstructFrom ==
    /\ fop \notin {"idle", "resolve"}
    /\ fnerr = NoErr
    /\ fdepth <= MaxDepth
    /\ \E args \in ArgLists(fq), join_type \in JoinTypes, kwargs \in MixedKwargs :
         Outcome("construct", <<args, join_type, kwargs>>,
                 Q_init(args, join_type, kwargs))
    /\ UNCHANGED notFN

\* q & other
QAnd ==
    /\ fq.class = "Q"
    /\ fop # "resolve"
    /\ fnerr = NoErr
    /\ fdepth <= MaxDepth
    /\ \E other \in {fq, NotANode} :
         Outcome("and", <<<<fq, other>>, "AND", <<>>>>, Q_and(fq, other))
    /\ UNCHANGED notFN

\* q | other
QOr ==
    /\ fq.class = "Q"
    /\ fop # "resolve"
    /\ fnerr = NoErr
    /\ fdepth <= MaxDepth
    /\ \E other \in {fq, NotANode} :
         Outcome("or", <<<<fq, other>>, "OR", <<>>>>, Q_or(fq, other))
    /\ UNCHANGED notFN

\* ~q
QInvert ==
    /\ fq.class = "Q"
    /\ fop # "resolve"
    /\ fnerr = NoErr
    /\ fdepth <= MaxDepth
    /\ Outcome("invert", <<fq.children, fq.join_type, fq.filters>>, Q_invert(fq))
    /\ UNCHANGED notFN

\* q.resolve(model, annotations, custom_filters)
Resolve ==
    /\ fq.class = "Q"
    /\ fop # "resolve"
    /\ fnerr = NoErr
    /\ \E model \in Models :
         LET r == resolve(fq, model, fcf)
         IN  fres' = [ok |-> r.ok, modifier |-> r.modifier, error |-> r.error,
                      model |-> model]
    /\ fop' = "resolve"
    /\ UNCHANGED <<fq, fprev, fcall, fnew, fnerr, fcf, fdepth>>
    /\ UNCHANGED notFN

NextFN == Construct \/ ConstructFrom \/ QAnd \/ QOr \/ QInvert \/ Resolve

(***************************************************************************)
(* Claims about filter nodes                                               *)
(***************************************************************************)
\* the last constructor call had an ordered argument that is no node
BadArgs == \E i \in DOMAIN fcall[1] : fcall[1][i].class # "Q"

BadJoinType == fcall[2] \notin {"AND", "OR"}

\* C9 as stated: constructing a node with an ordered argument that is not a
\* node, or with a join type other than AND and OR, fails with a
\* ValidationError and produces no node, keyword constraints supplied or not.
C9_AsStated ==
    (fop = "construct" /\ (BadArgs \/ BadJoinType))
        => (fnerr.type = "ValidationError" /\ fnew = NoNode)

\* C9 amended: such a construction fails with an OperationalError and
\* produces no node, keyword constraints supplied or not; the message is
\* "All ordered arguments must be Q nodes" for an argument that is no node
\* and "join_type must be AND or OR" for the join type, the latter winning
\* when both are wrong and keyword constraints come with the ordered
\* arguments; every other construction produces a node and raises nothing.
C9_ConstructionFails ==
    fop = "construct" =>
        IF BadArgs \/ BadJoinType
        THEN /\ fnerr.type = "OperationalError"
             /\ fnew = NoNode
             /\ fq = fprev
             /\ fnerr.message =
                    IF BadJoinType /\ (~BadArgs \/ (fcall[1] # <<>> /\ fcall[3] # <<>>))
                    THEN "join_type must be AND or OR"
                    ELSE "All ordered arguments must be Q nodes"
        ELSE /\ fnerr = NoErr
             /\ fnew.class = "Q"
             /\ fq = fnew

\* a construction with an ordered argument that is no node, a valid join
\* type and keyword constraints was refused
C9_Witness ==
    /\ fop = "construct"
    /\ BadArgs
    /\ ~BadJoinType
    /\ fcall[3] # <<>>
    /\ fnerr.type = "OperationalError"
    /\ fnew = NoNode

RECURSIVE KeysOf(_)
\* the keyword keys of a node and of the nodes below it
KeysOf(node) ==
    {node.filters[i][1] : i \in DOMAIN node.filters}
    \cup UNION {KeysOf(node.children[i]) : i \in DOMAIN node.children}

\* the key is of one of the kinds the model accepts
KnownKind(model, key, custom_filters) ==
    \/ IsFieldName(key, Meta(model).fk_fields \cup Meta(model).o2o_fields)
    \/ IsFieldName(key, Meta(model).m2m_fields)
    \/ FirstSegment(key) \in Meta(model).fetch_fields
    \/ key \in CustomKeys(custom_filters)
    \/ key \in Meta(model).filter_keys

\* the key is handed on to the model its first segment leads to
Traverses(model, key, custom_filters) ==
    /\ ~IsFieldName(key, Meta(model).fk_fields \cup Meta(model).o2o_fields
                         \cup Meta(model).m2m_fields)
    /\ key \notin CustomKeys(custom_filters)
    /\ key \notin Meta(model).filter_keys
    /\ FirstSegment(key) \in Meta(model).fetch_fields

RECURSIVE Offence(_, _, _)
\* where a key fails: <<the suffix that is of no kind, the model it is
\* looked up in>>, or <<>> when the key is accepted all the way
Offence(model, key, custom_filters) ==
    IF ~KnownKind(model, key, custom_filters) THEN <<key, model>>
    ELSE IF Traverses(model, key, custom_filters)
    THEN Offence(GetField(model, FirstSegment(key)).field_type, RestOfKey(key),
                 custom_filters)
    ELSE <<>>

FailedWithFieldError ==
    ~fres.ok /\ fres.error.type = "FieldError"

\* a node of one keyword constraint on a foreign-key or one-to-one field,
\* not negated
SingleReferenceKey ==
    /\ fq.children = <<>>
    /\ Len(fq.filters) = 1
    /\ ~fq._is_negated
    /\ IsFieldName(fq.filters[1][1],
                   Meta(fres.model).fk_fields \cup Meta(fres.model).o2o_fields)

\* the comparison of the source column with the pk of an object value, or
\* with a plain value as it is
RewrittenReference ==
    LET key == fq.filters[1][1]
        value == fq.filters[1][2]
    IN  /\ fres.ok
        /\ fres.modifier =
             QueryModifier(Leaf(<<Meta(fres.model).table,
                                  GetField(fres.model, key[1]).source_field,
                                  "eq", value[2]>>),
                           <<>>, EmptyCriterion)

\* C10 as stated: resolving a node fails with a FieldError listing the sorted
\* fields, relations and custom filters of the model exactly when some
\* keyword key is none of: a foreign-key/one-to-one name, a many-to-many
\* name, a key whose first segment is a traversable relation, a custom
\* filter, a known filter key; a foreign-key/one-to-one key is rewritten to
\* its source column, an object value replaced by its pk.
C10_AsStated ==
    fop = "resolve" =>
        /\ (FailedWithFieldError /\ fres.error.allowed = Allowed(fres.model, fcf))
               <=> (\E key \in KeysOf(fq) : ~KnownKind(fres.model, key, fcf))
        /\ SingleReferenceKey => RewrittenReference

\* C10 amended: resolving a node fails, with a FieldError, exactly when some
\* keyword key, or what is left of it after following its leading relation
\* segments, is of none of the five kinds for the model reached there; the
\* error names that remainder and lists the sorted fields, relations and
\* custom filters of the model reached, not of the model resolved against.
\* A foreign-key/one-to-one key is rewritten to its source column, an object
\* value replaced by its pk.
C10_UnknownKeyFails ==
    fop = "resolve" =>
        /\ ~fres.ok <=> (\E key \in KeysOf(fq) : Offence(fres.model, key, fcf) # <<>>)
        /\ ~fres.ok =>
             /\ fres.error.type = "FieldError"
             /\ \E key \in KeysOf(fq) :
                  LET o == Offence(fres.model, key, fcf)
                  IN  /\ o # <<>>
                      /\ fres.error.key = o[1]
                      /\ fres.error.allowed = Allowed(o[2], fcf)
        /\ SingleReferenceKey => RewrittenReference

\* a key whose first segment is a relation of the model was refused for its
\* remainder, with the allowed names of the related model
C10_Witness ==
    /\ fop = "resolve"
    /\ fres.model = "Book"
    /\ <<"author", "bogus">> \in KeysOf(fq)
    /\ FailedWithFieldError
    /\ fres.error.key = <<"bogus">>
    /\ fres.error.allowed = Allowed("Author", fcf)
    /\ fcf # NoRegistry

\* a node of one keyword constraint, not negated
SingleKey ==
    /\ fq.children = <<>>
    /\ Len(fq.filters) = 1
    /\ ~fq._is_negated

\* the key ends in a comparison of a column of the model's own table
PlainColumnKey(model, key) ==
    /\ key \in Meta(model).filter_keys
    /\ GetFilter(model, key).table = ""

RECURSIVE PathEnd(_, _, _)
\* where a key ends after following its leading relation segments:
\* <<the model reached, the remainder of the key>>
PathEnd(model, key, custom_filters) ==
    IF Traverses(model, key, custom_filters)
    THEN PathEnd(GetField(model, FirstSegment(key)).field_type, RestOfKey(key),
                 custom_filters)
    ELSE <<model, key>>

RECURSIVE PathTables(_, _, _)
\* the tables joined along the relations of a key, in path order: the target
\* table for a forward or backward reference, the through table and then
\* the target table for a many-to-many relation
PathTables(model, key, custom_filters) ==
    IF Traverses(model, key, custom_filters)
    THEN LET r == GetField(model, FirstSegment(key))
         IN  (IF r.kind = "m2m"
              THEN <<r.through, Meta(r.field_type).table>>
              ELSE <<Meta(r.field_type).table>>)
             \o PathTables(r.field_type, RestOfKey(key), custom_filters)
    ELSE <<>>

\* the key of the node at hand crosses at least one relation and ends in a
\* plain column filter of the model reached
RelationPathKey ==
    /\ SingleKey
    /\ LET key == fq.filters[1][1]
           end == PathEnd(fres.model, key, fcf)
       IN  /\ Traverses(fres.model, key, fcf)
           /\ end[2] \notin CustomKeys(fcf)
           /\ PlainColumnKey(end[1], end[2])

\* C12: a key that traverses relations r1__...__rk and ends in a plain
\* column filter resolves to the join steps of r1, ..., rk in path order
\* (one per forward or backward reference, through table then target table
\* for a many-to-many relation), an empty having-predicate and the leaf
\* comparison on the table of the model reached last; author__books__title
\* against Book, a path over two single-step relations, gives exactly the
\* join onto author and then the join onto book.
C12_NestedJoins ==
    (fop = "resolve" /\ RelationPathKey) =>
        LET key == fq.filters[1][1]
            value == fq.filters[1][2]
            end == PathEnd(fres.model, key, fcf)
            param == GetFilter(end[1], end[2])
            joins == fres.modifier.joins
        IN  /\ fres.ok
            /\ [i \in DOMAIN joins |-> joins[i][1]] = PathTables(fres.model, key, fcf)
            /\ fres.modifier.having_criterion = EmptyCriterion
            /\ fres.modifier.where_criterion =
                  Leaf(<<Meta(end[1]).table, param.source_field, param.operator, value[2]>>)
            /\ (fres.model = "Book" /\ key = <<"author", "books", "title">>) =>
                  joins = <<<<"author", <<"author", "id", "book", "author_id">>>>,
                            <<"book", <<"author", "id", "book", "author_id">>>>>>
            /\ (fres.model = "Book" /\ key = <<"tags", "name">>) =>
                  joins = <<<<"book_tag", <<"book", "id", "book_tag", "book_id">>>>,
                            <<"tag", <<"book_tag", "tag_id", "tag", "id">>>>>>

\* author__books__title was resolved against Book: two joins, the leaf on
\* book.title
C12_Witness ==
    /\ fop = "resolve"
    /\ RelationPathKey
    /\ fres.model = "Book"
    /\ fq.filters[1][1] = <<"author", "books", "title">>
    /\ Len(fres.modifier.joins) = 2
    /\ fres.modifier.where_criterion = Leaf(<<"book", "title", "eq", "x">>)

\* ~~q for the node at hand
DoubleInvert(q) == Q_invert(Q_invert(q).node).node

\* C13 as stated: negation is a toggle.  For every node q, negated or not,
\* ~q has q's children, filters and join type and the opposite negation
\* flag, and q is left as it was; so ~~q has q's negation flag and resolves
\* to the same Query Modifier as q.
C13_AsStated ==
    /\ fop = "invert" =>
          /\ fnew.children = fprev.children
          /\ fnew.filters = fprev.filters
          /\ fnew.join_type = fprev.join_type
          /\ fnew._is_negated = ~fprev._is_negated
    /\ (fq.class = "Q" /\ fop # "resolve") =>
          /\ DoubleInvert(fq)._is_negated = fq._is_negated
          /\ \A model \in Models :
                resolve(DoubleInvert(fq), model, fcf) = resolve(fq, model, fcf)

(***************************************************************************)
(* Prefetch attachment: Prefetch.resolve_for_queryset on a queryset of     *)
(* model Book.  A relation path "a__b" is the tuple <<"a", "b">>; the two  *)
(* maps of the queryset are functions whose domain is the keys present.    *)
(***************************************************************************)
EmptyMap == [k \in {} |-> {}]

\* d[key] = value on a dict
DictSet(d, key, value) ==
    [k \in (DOMAIN d) \cup {key} |-> IF k = key THEN value ELSE d[k]]

\* a Prefetch object compared by its fields
Prefetch_byvalue(id, relation, queryset) ==
    [id |-> 0, relation |-> relation, queryset |-> queryset]

\* Prefetch(relation, queryset): an object with the identity hash and
\* equality Python gives a class that defines neither
Prefetch(id, relation, queryset) ==
    [id |-> id, relation |-> relation, queryset |-> queryset]

NoPfError == [type |-> "", segment |-> "", table |-> ""]

\* "__".join(relation_split[1:]): <<>> stands for the empty string
ForwardedPrefetch(relation) == Tail(relation)

\* resolve_for_queryset creating the deferred set before it checks the
\* segment
resolve_for_queryset_late(self, model, queries, map, id) ==
    LET first_level_field == self.relation[1]
        forwarded_prefetch == ForwardedPrefetch(self.relation)
        created == IF first_level_field \in DOMAIN map THEN map
                   ELSE DictSet(map, first_level_field, {})
    IN  IF first_level_field \notin Meta(model).fetch_fields
        THEN [ok |-> FALSE, queries |-> queries, map |-> created, made |-> 0,
              error |-> [type |-> "OperationalError", segment |-> first_level_field,
                         table |-> Meta(model).table]]
        ELSE IF forwarded_prefetch # <<>>
        THEN [ok |-> TRUE, queries |-> queries,
              map |-> DictSet(created, first_level_field,
                          created[first_level_field]
                          \cup {Prefetch(id, forwarded_prefetch, self.queryset)}),
              made |-> 1, error |-> NoPfError]
        ELSE [ok |-> TRUE,
              queries |-> DictSet(queries, first_level_field, self.queryset),
              map |-> map, made |-> 0, error |-> NoPfError]

\* Prefetch.resolve_for_queryset(queryset) for a queryset of the model with
\* the two maps given; id is the identity of the Prefetch object it may
\* create, made the number of objects it created
resolve_for_queryset(self, model, queries, map, id) ==
    LET first_level_field == self.relation[1]
        forwarded_prefetch == ForwardedPrefetch(self.relation)
        present == IF first_level_field \in DOMAIN map THEN map
                   ELSE DictSet(map, first_level_field, {})
    IN  IF first_level_field \notin Meta(model).fetch_fields
        THEN [ok |-> FALSE, queries |-> queries, map |-> map, made |-> 0,
              error |-> [type |-> "OperationalError", segment |-> first_level_field,
                         table |-> Meta(model).table]]
        ELSE IF forwarded_prefetch # <<>>
        THEN [ok |-> TRUE, queries |-> queries,
              map |-> DictSet(present, first_level_field,
                          present[first_level_field]
                          \cup {Prefetch(id, forwarded_prefetch, self.queryset)}),
              made |-> 1, error |-> NoPfError]
        ELSE [ok |-> TRUE,
              queries |-> DictSet(queries, first_level_field, self.queryset),
              map |-> map, made |-> 0, error |-> NoPfError]

\* relation paths handed to attach calls
RelationSamples ==
    {<<"author">>, <<"tags">>, <<"author", "books">>, <<"tags", "books">>,
     <<"author", "books", "tags">>, <<"title">>, <<"bogus", "books">>}

\* the load-specs (querysets) of the Prefetch objects attached
LoadSpecs == {"qs1", "qs2"}

IdlePF ==
    /\ pfqueries = EmptyMap
    /\ pfmap = EmptyMap
    /\ pfresets = [q \in LoadSpecs |-> 0]
    /\ pfnext = 0
    /\ pflog = <<>>
    /\ pferr = NoPfError
    /\ pfbefore = <<EmptyMap, EmptyMap>>

\* a fresh queryset: both maps empty
InitPF == IdlePF

\* Prefetch(relation, load_spec).resolve_for_queryset(queryset)
Attach ==
    /\ Len(pflog) < MaxAttach
    /\ \E relation \in RelationSamples, load_spec \in LoadSpecs :
         LET self == Prefetch(0, relation, load_spec)
             r == resolve_for_queryset(self, "Book", pfqueries, pfmap, pfnext + 1)
         IN  /\ pfqueries' = r.queries
             /\ pfmap' = r.map
             /\ pfnext' = pfnext + r.made
             /\ pfresets' = [pfresets EXCEPT ![load_spec] = @ + 1 + r.made]
             /\ pflog' = Append(pflog, <<relation, load_spec, r.ok>>)
             /\ pferr' = r.error
    /\ pfbefore' = <<pfqueries, pfmap>>
    /\ UNCHANGED notPF

NextPF == Attach

(***************************************************************************)
(* Claims about prefetch attachment (checked under SpecPF)                 *)
(***************************************************************************)
LastAttach == pflog[Len(pflog)]

\* C11: an attach whose first path segment is not a traversable relation of
\* the queryset's model fails with an OperationalError naming the segment
\* and the model's table, and leaves _prefetch_queries and _prefetch_map as
\* they were; an attach whose first segment is one raises nothing.
C11_UnknownRelationFails ==
    pflog # <<>> =>
        IF LastAttach[1][1] \notin Meta("Book").fetch_fields
        THEN /\ ~LastAttach[3]
             /\ pferr = [type |-> "OperationalError", segment |-> LastAttach[1][1],
                         table |-> "book"]
             /\ <<pfqueries, pfmap>> = pfbefore
        ELSE /\ LastAttach[3]
             /\ pferr = NoPfError

\* an attach through a name that is a field but no relation was refused
\* after earlier attaches had filled both maps
C11_Witness ==
    /\ pflog # <<>>
    /\ LastAttach[1] = <<"title">>
    /\ pferr.type = "OperationalError"
    /\ DOMAIN pfqueries # {}
    /\ DOMAIN pfmap # {}

\* the successful attach calls so far, by position in the log
Terminals(seg) ==
    {i \in DOMAIN pflog : pflog[i][3] /\ pflog[i][1] = <<seg>>}

Deferrals(seg) ==
    {i \in DOMAIN pflog : pflog[i][3] /\ pflog[i][1][1] = seg /\ Len(pflog[i][1]) > 1}

LogSegments == {pflog[i][1][1] : i \in DOMAIN pflog}

\* C14: after any sequence of attach calls the terminal value bound to a
\* segment is the load-spec of the latest successful single-segment attach
\* for it (none if there was none); an attach with a remaining suffix leaves
\* every terminal binding as it was; every successful attach with a suffix
\* has left one deferred entry of its own, carrying its suffix and its
\* load-spec, in the segment's deferred set, so n of them leave n entries.
C14_TerminalAndDeferred ==
    /\ DOMAIN pfqueries = {seg \in LogSegments : Terminals(seg) # {}}
    /\ \A seg \in DOMAIN pfqueries :
          \E i \in Terminals(seg) :
              /\ \A j \in Terminals(seg) : j <= i
              /\ pfqueries[seg] = pflog[i][2]
    /\ (pflog # <<>> /\ Len(LastAttach[1]) > 1) => pfqueries = pfbefore[1]
    /\ DOMAIN pfmap = {seg \in LogSegments : Deferrals(seg) # {}}
    /\ \A seg \in DOMAIN pfmap :
          /\ Cardinality(pfmap[seg]) = Cardinality(Deferrals(seg))
          /\ \A i \in Deferrals(seg) :
                Cardinality({e \in pfmap[seg] :
                                e.relation = Tail(pflog[i][1]) /\ e.queryset = pflog[i][2]})
                = Cardinality({j \in Deferrals(seg) :
                                pflog[j][1] = pflog[i][1] /\ pflog[j][2] = pflog[i][2]})

\* the same multi-segment attach was made twice after a single-segment
\* attach for the segment: two deferred entries, the terminal binding kept
C14_Witness ==
    /\ "author" \in DOMAIN pfmap
    /\ Cardinality(pfmap["author"]) = 2
    /\ \A e \in pfmap["author"] : e.relation = <<"books">> /\ e.queryset = "qs1"
    /\ "author" \in DOMAIN pfqueries
    /\ pfqueries["author"] = "qs2"
    /\ LastAttach[1] = <<"author", "books">>

(***************************************************************************)
(* AsyncpgExecutor.execute_insert: several calls on one executor, run as   *)
(* tasks of one event loop.  A call runs without interruption between two  *)
(* awaits; the connection a call acquires is numbered after the call.      *)
(***************************************************************************)
Calls == 1..MaxCalls

None == 0

IdleEX ==
    /\ expc = [c \in Calls |-> "idle"]
    /\ connection = None
    /\ exheld = [c \in Calls |-> None]
    /\ exreleases = <<>>
    /\ exerr = [c \in Calls |-> ""]

InitEX ==
    /\ expc = [c \in Calls |-> "start"]
    /\ connection = None
    /\ exheld = [c \in Calls |-> None]
    /\ exreleases = <<>>
    /\ exerr = [c \in Calls |-> ""]

\* self.connection = await self.db.get_single_connection(), the query built
\* from self.connection, and execute_query called on it: up to the await of
\* the query
AcquireAndExecute(c) ==
    /\ expc[c] = "start"
    /\ connection' = c
    /\ exheld' = [exheld EXCEPT ![c] = c]
    /\ expc' = [expc EXCEPT ![c] = "executing"]
    /\ UNCHANGED <<exreleases, exerr>>
    /\ UNCHANGED notEX

\* execute_query returns: instance.id is set and release_single_connection
\* is called with what self.connection holds now, up to its await
QueryReturns(c) ==
    /\ expc[c] = "executing"
    /\ connection # None
    /\ exreleases' = Append(exreleases, <<connection, c>>)
    /\ expc' = [expc EXCEPT ![c] = "releasing"]
    /\ UNCHANGED <<connection, exheld, exerr>>
    /\ UNCHANGED notEX

\* execute_query returns after another call has set self.connection to None:
\* release_single_connection(None) either raises or does nothing
QueryReturnsNoConnection(c) ==
    /\ expc[c] = "executing"
    /\ connection = None
    /\ \/ /\ expc' = [expc EXCEPT ![c] = "failed"]
          /\ exerr' = [exerr EXCEPT ![c] = "release of None"]
       \/ /\ expc' = [expc EXCEPT ![c] = "releasing"]
          /\ UNCHANGED exerr
    /\ UNCHANGED <<connection, exheld, exreleases>>
    /\ UNCHANGED notEX

\* execute_query raises: the exception leaves execute_insert at once
QueryRaises(c) ==
    /\ expc[c] = "executing"
    /\ expc' = [expc EXCEPT ![c] = "failed"]
    /\ exerr' = [exerr EXCEPT ![c] = "query failed"]
    /\ UNCHANGED <<connection, exheld, exreleases>>
    /\ UNCHANGED notEX

\* the release returns: self.connection = None; return instance
Finish(c) ==
    /\ expc[c] = "releasing"
    /\ connection' = None
    /\ expc' = [expc EXCEPT ![c] = "done"]
    /\ UNCHANGED <<exheld, exreleases, exerr>>
    /\ UNCHANGED notEX

NextEX ==
    \E c \in Calls :
        \/ AcquireAndExecute(c)
        \/ QueryReturns(c)
        \/ QueryReturnsNoConnection(c)
        \/ QueryRaises(c)
        \/ Finish(c)

(***************************************************************************)
(* Claims about execute_insert (checked under SpecEX)                      *)
(***************************************************************************)
\* the release calls made for a connection
ReleasesOf(conn) == {i \in DOMAIN exreleases : exreleases[i][1] = conn}

\* C16 as stated: every connection a call acquired is released exactly once,
\* by that call, by the time the call has finished, whether its query
\* succeeded or raised and however the calls interleave; no call releases a
\* connection another call acquired.
C16_AsStated ==
    /\ \A c \in Calls :
          expc[c] \in {"done", "failed"} =>
              /\ Cardinality(ReleasesOf(exheld[c])) = 1
              /\ \A i \in ReleasesOf(exheld[c]) : exreleases[i][2] = c
    /\ \A i \in DOMAIN exreleases : exreleases[i][1] = exheld[exreleases[i][2]]

(***************************************************************************)
(* Specifications                                                          *)
(***************************************************************************)
StartQM == InitQM /\ IdleSG /\ IdleNM /\ IdleFN /\ IdlePF /\ IdleEX

SpecQM == StartQM /\ [][NextQM]_vars

StartSG == InitSG /\ IdleQM /\ IdleNM /\ IdleFN /\ IdlePF /\ IdleEX

SpecSG == StartSG /\ [][NextSG]_vars

StartM2M == InitM2M /\ IdleQM /\ IdleNM /\ IdleFN /\ IdlePF /\ IdleEX

SpecM2M == StartM2M /\ [][NextSG]_vars

StartNM == InitNM /\ IdleQM /\ IdleSG /\ IdleFN /\ IdlePF /\ IdleEX

SpecNM == StartNM /\ [][NextNM]_vars

StartFN == InitFN /\ IdleQM /\ IdleSG /\ IdleNM /\ IdlePF /\ IdleEX

SpecFN == StartFN /\ [][NextFN]_vars

StartPF == InitPF /\ IdleQM /\ IdleSG /\ IdleNM /\ IdleFN /\ IdleEX

SpecPF == StartPF /\ [][NextPF]_vars

StartEX == InitEX /\ IdleQM /\ IdleSG /\ IdleNM /\ IdleFN /\ IdlePF

SpecEX == StartEX /\ [][NextEX]_vars

====
